---------------------------- MODULE Spec2Model ----------------------------
(***************************************************************************)
(* A model of imessage-database's typedstream reader                       *)
(* (src/util/attributed_string.rs) and of Attachment::mime_type            *)
(* (src/tables/attachment.rs).                                             *)
(*                                                                         *)
(* The reader is a recursive-descent parser.  It is modelled as a machine  *)
(* with an explicit call stack: one frame per active call of parse,        *)
(* get_type, read_types, read_embedded_data, read_object and read_class,   *)
(* and one action per straight-line segment of a function body (from a     *)
(* match arm or loop test to the next call, return or loop test).  A       *)
(* Rust panic (index out of range, unwrap of None / Err, arithmetic        *)
(* overflow in a build with overflow checks) ends the run in status        *)
(* "panic".                                                                *)
(***************************************************************************)
EXTENDS Integers, Sequences, FiniteSets, TLC

VARIABLES
    stream,          \* TypedStreamReader.stream: the input bytes
    idx,             \* TypedStreamReader.idx: the cursor (0-based)
    types_table,     \* TypedStreamReader.types_table
    object_table,    \* TypedStreamReader.object_table
    stack,           \* the call stack: frames of the active calls, top last
    ret,             \* the value returned by the call that returned last
    status,          \* "ready" | "running" | "done" | "panic"
    overflow_checks, \* whether the build panics on integer overflow
    run,             \* number of the parse invocation over this buffer
    first,           \* outcome of the first invocation, once a second began
    mime_type,       \* Attachment.mime_type: Option<String>
    media            \* the MediaType returned by Attachment::mime_type

vars == << stream, idx, types_table, object_table, stack, ret, status,
           overflow_checks, run, first, mime_type, media >>

readerVars == << stream, idx, types_table, object_table, stack, ret, status,
                 overflow_checks, run, first >>

-----------------------------------------------------------------------------
(* Marker bytes. *)

START == 132

EMPTY == 133

END == 134

ENCODING_DETECTED == 149

REFERENCE_TAG == 146

HEADER_LEN == 16

U8 == 256

-----------------------------------------------------------------------------
(* Values. *)

\* enum Type
TypeObject == [k |-> "Object", b |-> 0, s |-> <<>>]
TypeUtf8String == [k |-> "Utf8String", b |-> 0, s |-> <<>>]
TypeEmbeddedData == [k |-> "EmbeddedData", b |-> 0, s |-> <<>>]
TypeUnsignedInt == [k |-> "UnsignedInt", b |-> 0, s |-> <<>>]
TypeSignedInt == [k |-> "SignedInt", b |-> 0, s |-> <<>>]
TypeUnknown(byte) == [k |-> "Unknown", b |-> byte, s |-> <<>>]
new_string(string) == [k |-> "String", b |-> 0, s |-> string]

from_byte(byte) ==
    CASE byte = 64  -> TypeObject
      [] byte = 43  -> TypeUtf8String
      [] byte = 42  -> TypeEmbeddedData
      [] byte = 105 -> TypeUnsignedInt
      [] byte = 73  -> TypeSignedInt
      [] OTHER      -> TypeUnknown(byte)

\* enum OutputData (the variants the reader produces)
OutString(s) == [k |-> "String", s |-> s, n |-> 0]
OutNumber(n) == [k |-> "Number", s |-> <<>>, n |-> n]
OutByte(b) == [k |-> "Byte", s |-> <<>>, n |-> b]
OutClass(name, version) == [k |-> "Class", s |-> name, n |-> version]
OutNone == [k |-> "None", s |-> <<>>, n |-> 0]

\* enum Archivable
ArchClass(name, version) ==
    [k |-> "Class", name |-> name, version |-> version, data |-> <<>>]
ArchObject(data) ==
    [k |-> "Object", name |-> <<>>, version |-> 0, data |-> data]

\* Return values.  An Option<&Archivable> is the index of the entry in
\* object_table (the table is never reordered while the borrow lives).
NoRet == [k |-> "none", types |-> <<>>, data |-> <<>>, some |-> FALSE, ix |-> 0]
RetTypes(t) == [NoRet EXCEPT !.k = "types", !.types = t]
RetData(d) == [NoRet EXCEPT !.k = "data", !.data = d]
RetEntries(d) == [NoRet EXCEPT !.k = "entries", !.data = d]
RetSome(i) == [NoRet EXCEPT !.k = "obj", !.some = TRUE, !.ix = i]
RetNone == [NoRet EXCEPT !.k = "obj"]

\* the last entry instead of the entry at the index
table_get_last(table, index) ==
    IF Len(table) > 0 THEN RetSome(Len(table) - 1) ELSE RetNone

\* Vec::get
table_get(table, index) ==
    IF index < Len(table) THEN RetSome(index) ELSE RetNone

\* Vec::last
table_last(table) ==
    IF Len(table) > 0 THEN RetSome(Len(table) - 1) ELSE RetNone

\* an insertion at the front instead of a push
push_front(table, entry) == << entry >> \o table

\* Vec::push
push(table, entry) == Append(table, entry)

-----------------------------------------------------------------------------
(* The byte cursor.  A read at cursor i gives [ok, idx, val]: ok is FALSE  *)
(* where the code panics, idx is the cursor after the read.                *)

Fail(i) == [ok |-> FALSE, idx |-> i, val |-> 0]

InBounds(i) == i < Len(stream)

get_byte(i) == stream[i + 1]

get_current_byte == get_byte(idx)

get_next_byte == get_byte(idx + 1)

\* read_int without the bounds check of the indexing
read_int_unchecked(i) ==
    [ok |-> TRUE, idx |-> i + 1, val |-> IF InBounds(i) THEN get_byte(i) ELSE 0]

read_int(i) ==
    IF InBounds(i) THEN [ok |-> TRUE, idx |-> i + 1, val |-> get_byte(i)]
    ELSE Fail(i)

read_exact_bytes(i, n) ==
    IF i + n <= Len(stream)
    THEN [ok |-> TRUE, idx |-> i + n, val |-> SubSeq(stream, i + 1, i + n)]
    ELSE Fail(i)

\* std::str::from_utf8(..).is_ok()
RECURSIVE from_utf8_ok(_)
from_utf8_ok(bytes) ==
    LET n == Len(bytes)
        Cont(j) == j <= n /\ bytes[j] >= 128 /\ bytes[j] <= 191
        Rest(k) == from_utf8_ok(SubSeq(bytes, k, n))
        b0 == bytes[1]
    IN  IF n = 0 THEN TRUE
        ELSE IF b0 < 128 THEN Rest(2)
        ELSE IF b0 >= 194 /\ b0 <= 223 THEN Cont(2) /\ Rest(3)
        ELSE IF b0 = 224
             THEN Cont(2) /\ bytes[2] >= 160 /\ Cont(3) /\ Rest(4)
        ELSE IF b0 = 237
             THEN Cont(2) /\ bytes[2] <= 159 /\ Cont(3) /\ Rest(4)
        ELSE IF b0 >= 225 /\ b0 <= 239 THEN Cont(2) /\ Cont(3) /\ Rest(4)
        ELSE IF b0 = 240
             THEN Cont(2) /\ bytes[2] >= 144 /\ Cont(3) /\ Cont(4) /\ Rest(5)
        ELSE IF b0 >= 241 /\ b0 <= 243
             THEN Cont(2) /\ Cont(3) /\ Cont(4) /\ Rest(5)
        ELSE IF b0 = 244
             THEN Cont(2) /\ bytes[2] <= 143 /\ Cont(3) /\ Cont(4) /\ Rest(5)
        ELSE FALSE

\* A String holds its UTF-8 bytes.
read_exact_as_string(i, n) ==
    LET r == read_exact_bytes(i, n)
    IN  IF r.ok /\ ~from_utf8_ok(r.val) THEN Fail(r.idx) ELSE r

\* read_string that reads the text from the length byte on
read_string_from_length(i) ==
    LET length == read_int(i)
    IN  IF length.ok THEN read_exact_as_string(i, length.val)
        ELSE length

read_string(i) ==
    LET length == read_int(i)
    IN  IF length.ok THEN read_exact_as_string(length.idx, length.val)
        ELSE length

\* .iter().map(Type::from_byte).collect()
RECURSIVE map_from_byte(_)
map_from_byte(bytes) ==
    IF bytes = << >> THEN << >>
    ELSE << from_byte(Head(bytes)) >> \o map_from_byte(Tail(bytes))

read_type(i) ==
    LET length == read_int(i)
        bytes == read_exact_bytes(length.idx, length.val)
    IN  IF ~length.ok THEN length
        ELSE IF ~bytes.ok THEN bytes
        ELSE [bytes EXCEPT !.val = map_from_byte(bytes.val)]

\* u8 subtraction: panics in a build with overflow checks, wraps otherwise.
read_pointer(i) ==
    IF ~InBounds(i) THEN Fail(i)
    ELSE IF get_byte(i) < REFERENCE_TAG /\ overflow_checks THEN Fail(i)
    ELSE [ok |-> TRUE, idx |-> i + 1,
          val |-> (get_byte(i) + U8 - REFERENCE_TAG) % U8]

-----------------------------------------------------------------------------
(* The call stack. *)

\* entry: for a read_class call, the place in the object table (counted
\* from 1) of the class it pushed, or the first free place when the
\* embedded object it reads began; 0 before that
Frame(fn, pc) ==
    [fn |-> fn, pc |-> pc, types |-> <<>>, i |-> 1, out |-> <<>>, entry |-> 0]

Top == stack[Len(stack)]

At(fn, pc) ==
    /\ status = "running"
    /\ Len(stack) > 0
    /\ Top.fn = fn
    /\ Top.pc = pc

Callers == SubSeq(stack, 1, Len(stack) - 1)

SetTop(f) == [stack EXCEPT ![Len(stack)] = f]

\* the top frame moves to pc and calls fn
Call(pc, f) == stack' = Append(SetTop([Top EXCEPT !.pc = pc]), f)

Return(v) ==
    /\ stack' = Callers
    /\ ret' = v

\* the panic leaves the cursor where the failing read found it
Panic(i) ==
    /\ status' = "panic"
    /\ idx' = i
    /\ UNCHANGED << stack, ret, types_table, object_table >>

buildVars == << stream, overflow_checks, run, first, mime_type, media >>

-----------------------------------------------------------------------------
(* parse *)

parse_begin ==
    /\ status = "ready"
    /\ status' = "running"
    /\ idx' = idx + HEADER_LEN
    /\ stack' = << Frame("parse", "loop") >>
    /\ UNCHANGED << ret, types_table, object_table, buildVars >>

parse_skip_end ==
    /\ At("parse", "loop")
    /\ InBounds(idx)
    /\ get_current_byte = END
    /\ idx' = idx + 1
    /\ UNCHANGED << stack, ret, status, types_table, object_table, buildVars >>

parse_get_type ==
    /\ At("parse", "loop")
    /\ InBounds(idx)
    /\ get_current_byte # END
    /\ Call("found_types", Frame("get_type", "match"))
    /\ UNCHANGED << idx, ret, status, types_table, object_table, buildVars >>

parse_read_types ==
    /\ At("parse", "found_types")
    /\ Call("result", [Frame("read_types", "for") EXCEPT !.types = ret.types])
    /\ UNCHANGED << idx, ret, status, types_table, object_table, buildVars >>

parse_push ==
    /\ At("parse", "result")
    /\ stack' = SetTop([Top EXCEPT !.pc = "loop", !.out = Append(@, ret.data)])
    /\ UNCHANGED << idx, ret, status, types_table, object_table, buildVars >>

parse_return ==
    /\ At("parse", "loop")
    /\ ~InBounds(idx)
    /\ status' = "done"
    /\ Return(RetEntries(Top.out))
    /\ UNCHANGED << idx, types_table, object_table, buildVars >>

-----------------------------------------------------------------------------
(* get_type *)

\* the START arm: a new type list is read and registered
get_type_start ==
    /\ At("get_type", "match")
    /\ InBounds(idx)
    /\ get_current_byte = START
    /\ LET object_types == read_type(idx + 1)
       IN  IF object_types.ok
           THEN /\ idx' = object_types.idx
                /\ types_table' = push(types_table, object_types.val)
                /\ Return(RetTypes(object_types.val))
                /\ UNCHANGED << status, object_table >>
           ELSE Panic(object_types.idx)
    /\ UNCHANGED buildVars

\* the END arm: no types, the END byte is left for the caller
get_type_end ==
    /\ At("get_type", "match")
    /\ InBounds(idx)
    /\ get_current_byte = END
    /\ Return(RetTypes(<< >>))
    /\ UNCHANGED << idx, status, types_table, object_table, buildVars >>

\* the fall-through arm was taken, or its loop is running
InRefArm ==
    /\ status = "running"
    /\ Len(stack) > 0
    /\ Top.fn = "get_type"
    /\ \/ Top.pc = "skip"
       \/ Top.pc = "match" /\ InBounds(idx) /\ get_current_byte \notin {START, END}

\* the loop without its self.idx += 1
get_type_skip_staying ==
    /\ InRefArm
    /\ InBounds(idx + 1)
    /\ get_current_byte = get_next_byte
    /\ idx' = idx
    /\ stack' = SetTop([Top EXCEPT !.pc = "skip"])
    /\ UNCHANGED << ret, status, types_table, object_table, buildVars >>

\* one iteration of: while current byte == next byte
get_type_skip ==
    /\ InRefArm
    /\ InBounds(idx + 1)
    /\ get_current_byte = get_next_byte
    /\ idx' = idx + 1
    /\ stack' = SetTop([Top EXCEPT !.pc = "skip"])
    /\ UNCHANGED << ret, status, types_table, object_table, buildVars >>

\* get_type's pointer arm registering the list it reuses once more
get_type_ref_registering ==
    /\ InRefArm
    /\ InBounds(idx + 1)
    /\ get_current_byte # get_next_byte
    /\ LET ref_tag == read_pointer(idx)
       IN  IF ref_tag.ok /\ ref_tag.val < Len(types_table)
           THEN /\ idx' = ref_tag.idx
                /\ types_table' =
                       push(types_table, types_table[ref_tag.val + 1])
                /\ Return(RetTypes(types_table[ref_tag.val + 1]))
                /\ UNCHANGED << status, object_table >>
           ELSE Panic(ref_tag.idx)
    /\ UNCHANGED buildVars

\* the loop ends: read the pointer and clone the referenced list
get_type_ref ==
    /\ InRefArm
    /\ InBounds(idx + 1)
    /\ get_current_byte # get_next_byte
    /\ LET ref_tag == read_pointer(idx)
       IN  IF ref_tag.ok /\ ref_tag.val < Len(types_table)
           THEN /\ idx' = ref_tag.idx
                /\ Return(RetTypes(types_table[ref_tag.val + 1]))
                /\ UNCHANGED << status, types_table, object_table >>
           ELSE Panic(ref_tag.idx)
    /\ UNCHANGED buildVars

\* get_current_byte at the match, or get_next_byte in the loop test, is
\* out of range
get_type_panic ==
    /\ \/ At("get_type", "match") /\ ~InBounds(idx)
       \/ InRefArm /\ ~InBounds(idx + 1)
    /\ Panic(idx)
    /\ UNCHANGED buildVars

-----------------------------------------------------------------------------
(* read_embedded_data *)

read_embedded_data_begin ==
    /\ At("read_embedded_data", "begin")
    /\ idx' = idx + 1
    /\ Call("parsed_type", Frame("get_type", "match"))
    /\ UNCHANGED << ret, status, types_table, object_table, buildVars >>

read_embedded_data_types ==
    /\ At("read_embedded_data", "parsed_type")
    /\ Call("values", [Frame("read_types", "for") EXCEPT !.types = ret.types])
    /\ UNCHANGED << idx, ret, status, types_table, object_table, buildVars >>

read_embedded_data_return ==
    /\ At("read_embedded_data", "values")
    /\ Return(ret)
    /\ UNCHANGED << idx, status, types_table, object_table, buildVars >>

-----------------------------------------------------------------------------
(* read_types: one action per iteration of the for loop, by match arm *)

\* the type the loop is at
InFor(kind) ==
    /\ At("read_types", "for")
    /\ Top.i <= Len(Top.types)
    /\ Top.types[Top.i].k = kind

object_type == Top.types[Top.i]

\* out_v.push(value); continue
Pushed(value) == [Top EXCEPT !.pc = "for", !.i = @ + 1, !.out = Append(@, value)]

\* out_v.extend(values); continue
Extended(values) == [Top EXCEPT !.pc = "for", !.i = @ + 1, !.out = @ \o values]

read_types_utf8_string ==
    /\ InFor("Utf8String")
    /\ LET string == read_string(idx)
       IN  IF string.ok
           THEN /\ idx' = string.idx
                /\ stack' = SetTop(Pushed(OutString(string.val)))
                /\ UNCHANGED << ret, status, types_table, object_table >>
           ELSE Panic(string.idx)
    /\ UNCHANGED buildVars

read_types_embedded_data ==
    /\ InFor("EmbeddedData")
    /\ Call("embedded", Frame("read_embedded_data", "begin"))
    /\ UNCHANGED << idx, ret, status, types_table, object_table, buildVars >>

read_types_extend ==
    /\ At("read_types", "embedded")
    /\ stack' = SetTop(Extended(ret.data))
    /\ UNCHANGED << idx, ret, status, types_table, object_table, buildVars >>

\* print_loc reads the current byte before read_object is called
read_types_object ==
    /\ InFor("Object")
    /\ IF InBounds(idx)
       THEN /\ Call("object", Frame("read_object", "match"))
            /\ UNCHANGED << idx, ret, status, types_table, object_table >>
       ELSE Panic(idx)
    /\ UNCHANGED buildVars

\* the value pushed for what read_object returned
object_output(object) ==
    IF object.some
    THEN LET archivable == object_table[object.ix + 1]
         IN  IF archivable.k = "Object" THEN archivable.data
             ELSE << OutClass(archivable.name, archivable.version) >>
    ELSE << OutNone >>

read_types_got_object ==
    /\ At("read_types", "object")
    /\ stack' = SetTop(Extended(object_output(ret)))
    /\ UNCHANGED << idx, ret, status, types_table, object_table, buildVars >>

read_types_signed_int ==
    /\ InFor("SignedInt")
    /\ LET number == read_int(idx)
       IN  IF number.ok
           THEN /\ idx' = number.idx
                /\ stack' = SetTop(Pushed(OutNumber(number.val)))
                /\ UNCHANGED << ret, status, types_table, object_table >>
           ELSE Panic(number.idx)
    /\ UNCHANGED buildVars

read_types_unsigned_int ==
    /\ InFor("UnsignedInt")
    /\ LET number == read_int(idx)
       IN  IF number.ok
           THEN /\ idx' = number.idx
                /\ stack' = SetTop(Pushed(OutNumber(number.val)))
                /\ UNCHANGED << ret, status, types_table, object_table >>
           ELSE Panic(number.idx)
    /\ UNCHANGED buildVars

\* an unknown type code decoded as a number
unknown_output_number(type) == OutNumber(type.b)

\* the value an unknown type code decodes to
unknown_output(type) == OutByte(type.b)

read_types_unknown ==
    /\ InFor("Unknown")
    /\ stack' = SetTop(Pushed(unknown_output(object_type)))
    /\ UNCHANGED << idx, ret, status, types_table, object_table, buildVars >>

read_types_string ==
    /\ InFor("String")
    /\ stack' = SetTop(Pushed(OutString(object_type.s)))
    /\ UNCHANGED << idx, ret, status, types_table, object_table, buildVars >>

read_types_return ==
    /\ At("read_types", "for")
    /\ Top.i > Len(Top.types)
    /\ Return(RetData(Top.out))
    /\ UNCHANGED << idx, status, types_table, object_table, buildVars >>

-----------------------------------------------------------------------------
(* read_object *)

read_object_start ==
    /\ At("read_object", "match")
    /\ get_current_byte = START
    /\ Call("obj_class", Frame("read_class", "match"))
    /\ UNCHANGED << idx, ret, status, types_table, object_table, buildVars >>

\* Some(obj_class) is passed on, None stays None
read_object_class ==
    /\ At("read_object", "obj_class")
    /\ Return(ret)
    /\ UNCHANGED << idx, status, types_table, object_table, buildVars >>

read_object_empty ==
    /\ At("read_object", "match")
    /\ get_current_byte = EMPTY
    /\ idx' = idx + 1
    /\ Return(RetNone)
    /\ UNCHANGED << status, types_table, object_table, buildVars >>

read_object_pointer ==
    /\ At("read_object", "match")
    /\ get_current_byte \notin {START, EMPTY}
    /\ LET index == read_pointer(idx)
       IN  IF index.ok
           THEN /\ idx' = index.idx
                /\ Return(table_get(object_table, index.val))
                /\ UNCHANGED << status, types_table, object_table >>
           ELSE Panic(index.idx)
    /\ UNCHANGED buildVars

-----------------------------------------------------------------------------
(* read_class *)

\* START arm, first iteration of: while current byte == START
read_class_start ==
    /\ At("read_class", "match")
    /\ get_current_byte = START
    /\ idx' = idx + 1
    /\ stack' = SetTop([Top EXCEPT !.pc = "skip"])
    /\ UNCHANGED << ret, status, types_table, object_table, buildVars >>

\* a further iteration of the loop
read_class_skip ==
    /\ At("read_class", "skip")
    /\ InBounds(idx)
    /\ get_current_byte = START
    /\ idx' = idx + 1
    /\ UNCHANGED << stack, ret, status, types_table, object_table, buildVars >>

\* the loop test reads past the end of the stream
read_class_skip_panic ==
    /\ At("read_class", "skip")
    /\ ~InBounds(idx)
    /\ Panic(idx)
    /\ UNCHANGED buildVars

\* the loop ended: the byte after the START markers
AtLength ==
    /\ At("read_class", "skip")
    /\ InBounds(idx)
    /\ get_current_byte # START

\* the length byte is a reference into the object table
read_class_reference ==
    /\ AtLength
    /\ get_current_byte >= REFERENCE_TAG
    /\ LET length == read_int(idx)
           index == length.val - REFERENCE_TAG
       IN  /\ idx' = length.idx
           /\ Return(table_get(object_table, index))
    /\ UNCHANGED << status, types_table, object_table, buildVars >>

\* name and version of a class, read at cursor i; the debug print after
\* them reads the byte that follows the version
class_literal(i) ==
    LET length == read_int(i)
        class_name == read_exact_as_string(length.idx, length.val)
        version == read_int(class_name.idx)
    IN  IF ~length.ok THEN length
        ELSE IF ~class_name.ok THEN class_name
        ELSE IF ~version.ok THEN version
        ELSE IF ~InBounds(version.idx) THEN Fail(version.idx)
        ELSE [ok |-> TRUE, idx |-> version.idx,
              val |-> ArchClass(class_name.val, version.val)]

\* a class is read and registered, then the next link of the chain is read
read_class_literal ==
    /\ AtLength
    /\ get_current_byte < REFERENCE_TAG
    /\ LET class == class_literal(idx)
       IN  IF class.ok
           THEN /\ idx' = class.idx
                /\ types_table' =
                       push(types_table, << new_string(class.val.name) >>)
                /\ object_table' = push(object_table, class.val)
                /\ stack' = Append(SetTop([Top EXCEPT !.pc = "chain",
                                                      !.entry = Len(object_table')]),
                                   Frame("read_class", "match"))
                /\ UNCHANGED << ret, status >>
           ELSE Panic(class.idx)
    /\ UNCHANGED buildVars

\* self.read_class()?; self.object_table.last()
read_class_chain ==
    /\ At("read_class", "chain")
    /\ Return(IF ret.some THEN table_last(object_table) ELSE RetNone)
    /\ UNCHANGED << idx, status, types_table, object_table, buildVars >>

read_class_empty ==
    /\ At("read_class", "match")
    /\ get_current_byte = EMPTY
    /\ idx' = idx + 1
    /\ Return(table_last(object_table))
    /\ UNCHANGED << status, types_table, object_table, buildVars >>

read_class_encoding ==
    /\ At("read_class", "match")
    /\ get_current_byte = ENCODING_DETECTED
    /\ stack' = Append(SetTop([Top EXCEPT !.pc = "embedded_data",
                                          !.entry = Len(object_table) + 1]),
                       Frame("read_embedded_data", "begin"))
    /\ UNCHANGED << idx, ret, status, types_table, object_table, buildVars >>

\* the embedded data is registered as a new object
read_class_object ==
    /\ At("read_class", "embedded_data")
    /\ object_table' = push(object_table, ArchObject(ret.data))
    /\ Return(table_last(object_table'))
    /\ UNCHANGED << idx, status, types_table, buildVars >>

read_class_pointer ==
    /\ At("read_class", "match")
    /\ get_current_byte \notin {START, EMPTY, ENCODING_DETECTED}
    /\ LET index == read_pointer(idx)
       IN  IF index.ok
           THEN /\ idx' = index.idx
                /\ Return(table_get(object_table, index.val))
                /\ UNCHANGED << status, types_table, object_table >>
           ELSE Panic(index.idx)
    /\ UNCHANGED buildVars

-----------------------------------------------------------------------------
(* Attachment::mime_type *)

\* Option<String>; a string is the sequence of its characters
NoMime == [some |-> FALSE, s |-> << >>]
SomeMime(s) == [some |-> TRUE, s |-> s]

\* enum MediaType; Unset: mime_type() was not called yet
Unset == [k |-> "Unset", s |-> << >>]
MediaType(kind, mime) == [k |-> kind, s |-> mime]

\* the whole mime type instead of its first part
split_none(mime) == mime

\* mime.split('/').next(): the text before the first '/'
RECURSIVE split_next(_)
split_next(mime) ==
    IF mime = << >> \/ Head(mime) = "/" THEN << >>
    ELSE << Head(mime) >> \o split_next(Tail(mime))

media_type(mime) ==
    IF mime.some
    THEN LET mime_str == split_next(mime.s)
         IN  CASE mime_str = << "i", "m", "a", "g", "e" >> ->
                      MediaType("Image", mime.s)
               [] mime_str = << "v", "i", "d", "e", "o" >> ->
                      MediaType("Video", mime.s)
               [] mime_str = << "a", "u", "d", "i", "o" >> ->
                      MediaType("Audio", mime.s)
               [] mime_str = << "t", "e", "x", "t" >> ->
                      MediaType("Text", mime.s)
               [] mime_str = << "a", "p", "p", "l", "i", "c", "a", "t", "i",
                                "o", "n" >> ->
                      MediaType("Application", mime.s)
               [] OTHER -> MediaType("Other", mime.s)
    ELSE MediaType("Unknown", << >>)

\* a call of Attachment::mime_type
Attachment_mime_type ==
    /\ media = Unset
    /\ media' = media_type(mime_type)
    /\ UNCHANGED << readerVars, mime_type >>

-----------------------------------------------------------------------------
(* Inputs. *)

\* length of the exhaustively enumerated bodies
MaxBody == 3

\* the bytes the exhaustive bodies are made of: the markers, two
\* references, the type codes, two small lengths and a letter
BodyBytes ==
    {START, EMPTY, END, ENCODING_DETECTED, 146, 147, 64, 43, 42, 105, 0, 1, 65}

\* the bytes a byte of a sample stream is replaced by
MutationBytes == BodyBytes \cup {73, 2, 85, 195, 255}

\* the 16 bytes every typedstream begins with
Header == << 4, 11, 115, 116, 114, 101, 97, 109, 116, 121, 112, 101, 100,
             129, 232, 3 >>

Hello == << 72, 101, 108, 108, 111 >>

\* [Utf8String], then a string of the first n bytes of Hello
HelloStream(n) == Header \o << START, 1, 43, n >> \o SubSeq(Hello, 1, n)

\* [Object]; A v1 -> B v2 -> EMPTY; a reference to type list 0 and, after
\* START, to object 0; a reference to type list 0 and C v3 -> object 0
ChainStream ==
    Header \o << START, 1, 64, START, 1, 65, 1, START, 1, 66, 2, EMPTY,
                 146, START, 146,
                 146, START, 1, 67, 3, 146 >>

\* [Utf8String] "A"; type list 0 again, "B"
TypeRefStream == Header \o << START, 1, 43, 1, 65, 146, 1, 66 >>

\* [UnsignedInt] 7; a run of two references to type list 0, 8
DuplicateStream == Header \o << START, 1, 105, 7, 146, 146, 8 >>

\* [Unknown(85), SignedInt] 9
UnknownStream == Header \o << START, 2, 85, 73, 9 >>

\* [Object]; A v1 -> embedded data [UnsignedInt] 5
ObjectStream ==
    Header \o << START, 1, 64, START, 1, 65, 1, ENCODING_DETECTED,
                 START, 1, 105, 5 >>

\* [EmbeddedData]: a skipped byte, [UnsignedInt] 5; [EmbeddedData] again:
\* a skipped byte, END
EmbeddedStream ==
    Header \o << START, 1, 42, START, START, 1, 105, 5, 146, START, END >>

\* [Object] EMPTY; [Object]; A v1 -> EMPTY; the type list the class
\* registered, END
NameStream ==
    Header \o << START, 1, 64, EMPTY, 146, START, START, 1, 65, 1, EMPTY,
                 147, END >>

\* [Object]; A v1 -> embedded data [Object]: B v2 -> EMPTY
NestedStream ==
    Header \o << START, 1, 64, START, 1, 65, 1, ENCODING_DETECTED,
                 START, 1, 64, START, 1, 66, 2, EMPTY >>

\* [Object], a reference to object 0 of an empty object table
UnresolvedStream == Header \o << START, 1, 64, 146 >>

SampleStreams ==
    { HelloStream(n) : n \in 0..Len(Hello) }
        \cup { ChainStream, TypeRefStream, DuplicateStream, UnknownStream,
               ObjectStream, EmbeddedStream, NameStream, NestedStream }

RECURSIVE Bodies(_)
Bodies(n) ==
    IF n = 0 THEN { << >> }
    ELSE LET shorter == Bodies(n - 1)
         IN  shorter \cup { Append(b, x) : b \in shorter, x \in BodyBytes }

Truncations(s) == { SubSeq(s, 1, n) : n \in 0..Len(s) }

Mutations(s) ==
    { [s EXCEPT ![p] = x] : p \in (HEADER_LEN + 1)..Len(s), x \in MutationBytes }

Streams ==
    { Header \o b : b \in Bodies(MaxBody) }
        \cup UNION { Truncations(s) : s \in SampleStreams }
        \cup UNION { Mutations(s) : s \in SampleStreams }
        \cup { UnresolvedStream }

-----------------------------------------------------------------------------
(* Specifications. *)

NoOutcome == [status |-> "none", entries |-> << >>]

\* TypedStreamReader::new over one of the streams
Init ==
    /\ stream \in Streams
    /\ idx = 0
    /\ types_table = << >>
    /\ object_table = << >>
    /\ stack = << >>
    /\ ret = NoRet
    /\ status = "ready"
    /\ overflow_checks \in BOOLEAN
    /\ run = 1
    /\ first = NoOutcome
    /\ mime_type = NoMime
    /\ media = Unset

Next ==
    \/ parse_begin
    \/ parse_skip_end
    \/ parse_get_type
    \/ parse_read_types
    \/ parse_push
    \/ parse_return
    \/ get_type_start
    \/ get_type_end
    \/ get_type_skip
    \/ get_type_ref
    \/ get_type_panic
    \/ read_embedded_data_begin
    \/ read_embedded_data_types
    \/ read_embedded_data_return
    \/ read_types_utf8_string
    \/ read_types_embedded_data
    \/ read_types_extend
    \/ read_types_object
    \/ read_types_got_object
    \/ read_types_signed_int
    \/ read_types_unsigned_int
    \/ read_types_unknown
    \/ read_types_string
    \/ read_types_return
    \/ read_object_start
    \/ read_object_class
    \/ read_object_empty
    \/ read_object_pointer
    \/ read_class_start
    \/ read_class_skip
    \/ read_class_skip_panic
    \/ read_class_reference
    \/ read_class_literal
    \/ read_class_chain
    \/ read_class_empty
    \/ read_class_encoding
    \/ read_class_object
    \/ read_class_pointer

Spec == Init /\ [][Next]_vars

-----------------------------------------------------------------------------
(* A second invocation over the same buffer, with a reader of its own. *)

\* parse invocations over one buffer
MaxRuns == 2

\* what an invocation gives its caller
Outcome ==
    [status |-> status, entries |-> IF status = "done" THEN ret.data ELSE << >>]

\* a reader that takes over the tables of the reader before it
new_keeping_tables(bytes) ==
    [stream |-> bytes, idx |-> 0, types_table |-> types_table,
     object_table |-> object_table]

\* TypedStreamReader::new
new(bytes) ==
    [stream |-> bytes, idx |-> 0, types_table |-> << >>, object_table |-> << >>]

reinvoke ==
    /\ status \in {"done", "panic"}
    /\ run < MaxRuns
    /\ LET reader == new(stream)
       IN  /\ stream' = reader.stream
           /\ idx' = reader.idx
           /\ types_table' = reader.types_table
           /\ object_table' = reader.object_table
    /\ stack' = << >>
    /\ ret' = NoRet
    /\ status' = "ready"
    /\ run' = run + 1
    /\ first' = IF run = 1 THEN Outcome ELSE first
    /\ UNCHANGED << overflow_checks, mime_type, media >>

NextTwice ==
    \/ Next
    \/ reinvoke

SpecTwice == Init /\ [][NextTwice]_vars

\* The reader is one sequential program: while a step of it is possible,
\* the next step is taken.
SpecLive == Spec /\ WF_vars(Next)

-----------------------------------------------------------------------------
(* Attachment::mime_type over a set of stored mime types. *)

Majors ==
    { << "i", "m", "a", "g", "e" >>, << "v", "i", "d", "e", "o" >>,
      << "a", "u", "d", "i", "o" >>, << "t", "e", "x", "t" >>,
      << "a", "p", "p", "l", "i", "c", "a", "t", "i", "o", "n" >>,
      << "b", "l", "o", "o", "p" >>, << >>, << "I", "m", "a", "g", "e" >>,
      << "i", "m", "a", "g" >>, << "i", "m", "a", "g", "e", "s" >>,
      << "f", "o", "n", "t" >> }

Minors ==
    { << >>, << "/" >>, << "/", "p", "n", "g" >>, << "/", "x", "/", "y" >>,
      << "/", "i", "m", "a", "g", "e" >>, << "/", "/", "t", "e", "x", "t" >> }

MimeTypes == { NoMime } \cup { SomeMime(a \o b) : a \in Majors, b \in Minors }

InitMime ==
    /\ stream = << >>
    /\ idx = 0
    /\ types_table = << >>
    /\ object_table = << >>
    /\ stack = << >>
    /\ ret = NoRet
    /\ status = "ready"
    /\ overflow_checks = FALSE
    /\ run = 1
    /\ first = NoOutcome
    /\ mime_type \in MimeTypes
    /\ media = Unset

NextMime == Attachment_mime_type

SpecMime == InitMime /\ [][NextMime]_vars

-----------------------------------------------------------------------------
(* Properties. *)

IsPrefix(a, b) == Len(a) <= Len(b) /\ SubSeq(b, 1, Len(a)) = a

Finished == status \in {"done", "panic"}

\* the bytes a step moved the cursor over
Consumed == SubSeq(stream, idx + 1, idx')

\* the sample streams decode: none of them panics
SamplesDecode == stream \in SampleStreams => status # "panic"

\* C1: a parse of a truncation of a decodable buffer (at any length, also
\* below the 16-byte header) ends with a result or with an error returned
\* to the caller; it never panics.
C1_TruncationNeverPanics ==
    (\E valid \in SampleStreams : stream \in Truncations(valid))
        => status # "panic"

\* C2: in a parse of a stream that has its header and that returns, the
\* cursor never exceeds the length of the stream.  The cursor never moves
\* back, so it is enough that it is within the stream when parse returns.
\* Every step that moves the cursor, but for the two unchecked skips (of
\* the header and of the first byte of embedded data), leaves it within
\* the stream, and every reading step moves it over exactly the bytes its
\* value is made of: the byte of an integer, the length byte and the bytes
\* of a string, the length, name and version of a class, the START byte,
\* the length and the codes of a type list.
C2_CursorWithinStream ==
    [][ /\ idx' >= idx
        /\ (status' = "done" /\ Len(stream) >= HEADER_LEN)
              => idx' <= Len(stream)
        /\ (idx' > idx /\ ~parse_begin /\ ~read_embedded_data_begin)
              => idx' <= Len(stream)
        /\ ((read_types_signed_int \/ read_types_unsigned_int)
              /\ status' = "running")
              => /\ idx' = idx + 1
                 /\ Top'.out = Append(Top.out, OutNumber(Consumed[1]))
        /\ (read_types_utf8_string /\ status' = "running")
              => \E string \in {SubSeq(Consumed, 2, Len(Consumed))} :
                     /\ Consumed = << Len(string) >> \o string
                     /\ Top'.out = Append(Top.out, OutString(string))
        /\ (read_class_literal /\ status' = "running")
              => \E class \in {object_table'[Len(object_table')]} :
                     Consumed = << Len(class.name) >> \o class.name
                                    \o << class.version >>
        /\ (get_type_start /\ status' = "running")
              => /\ Len(Consumed) = 2 + Len(ret'.types)
                 /\ Consumed[2] = Len(ret'.types)
      ]_vars

\* C2 witness: a parse returned with the cursor at the end of a stream in
\* which it skipped the header and the first byte of embedded data
C2_Witness ==
    /\ stream = ObjectStream
    /\ status = "done"
    /\ idx = Len(stream)

\* a back-reference (a byte from REFERENCE_TAG on) is about to be resolved,
\* and its index is not in the table it is resolved against
UnresolvedPending ==
    \/ /\ \/ At("read_object", "match")
             /\ get_current_byte \notin {START, EMPTY}
          \/ At("read_class", "match")
             /\ get_current_byte \notin {START, EMPTY, ENCODING_DETECTED}
          \/ AtLength
       /\ get_current_byte >= REFERENCE_TAG
       /\ get_current_byte - REFERENCE_TAG >= Len(object_table)
    \/ /\ InRefArm
       /\ InBounds(idx + 1)
       /\ get_current_byte # get_next_byte
       /\ get_current_byte >= REFERENCE_TAG
       /\ get_current_byte - REFERENCE_TAG >= Len(types_table)

\* C3: a back-reference is resolved with an index below the length of its
\* table; one whose index is not makes the parse fail with
\* UnresolvedReference: it gives no Empty value and it does not panic.
C3_UnresolvedReferenceFails ==
    [][UnresolvedPending => status' = "UnresolvedReference"]_vars

\* a step that registers an entry in the object table
Registers ==
    \/ read_class_literal /\ status' = "running"
    \/ read_class_object

\* C4: both tables are append-only during a parse: a step leaves the
\* entries of a table where they are and as they are; a registration adds
\* exactly one entry to the object table, at its end, and no other step
\* changes the length of the object table.
C4_TablesAppendOnly ==
    [][ /\ IsPrefix(object_table, object_table')
        /\ IsPrefix(types_table, types_table')
        /\ Len(object_table') =
              Len(object_table) + (IF Registers THEN 1 ELSE 0)
        /\ read_class_object
              => object_table'[Len(object_table')] = ArchObject(ret.data)
      ]_vars

\* C4 witness: three classes were registered, each is at the index it was
\* registered at
C4_Witness ==
    /\ stream = ChainStream
    /\ status = "done"
    /\ object_table = << ArchClass(<< 65 >>, 1), ArchClass(<< 66 >>, 2),
                         ArchClass(<< 67 >>, 3) >>

\* C5: two invocations of parse over the same buffer, each with a reader
\* of its own (cursor 0, empty tables), have the same outcome: the same
\* entries, or both a failure.
C5_SameOutcome == (run >= 2 /\ Finished) => Outcome = first

\* C5 witness: a second invocation returned entries that came from both
\* tables, as the first did
C5_Witness ==
    /\ stream = ChainStream
    /\ run = 2
    /\ status = "done"
    /\ Len(ret.data) = 3
    /\ Outcome = first

ClassA == ArchClass(<< 65 >>, 1)

ClassB == ArchClass(<< 66 >>, 2)

\* the cursor of a parse of ChainStream, counted from the end of the header
ChainAt == idx - HEADER_LEN

\* the states of a parse of ChainStream: the object table after each link
\* of the chain A v1 -> B v2 -> EMPTY, both tables until the class C is
\* read, and what the two later calls of read_class return
ChainStates ==
    stream = ChainStream =>
        /\ ChainAt < 7 => object_table = << >>
        /\ ChainAt \in 7..10 => object_table = << ClassA >>
        /\ ChainAt \in 11..19 =>
              /\ object_table = << ClassA, ClassB >>
              /\ types_table = << << TypeObject >>, << new_string(<< 65 >>) >>,
                                  << new_string(<< 66 >>) >> >>
        /\ (At("read_object", "obj_class") /\ ChainAt = 15) =>
              /\ ret = RetSome(0)
              /\ object_table[ret.ix + 1] = ClassA
        /\ (At("read_class", "chain") /\ ChainAt = 21) =>
              /\ ret = RetSome(0)
              /\ object_table[ret.ix + 1] = ClassA
        /\ status # "panic"

\* C6: from an empty object table, the chain A v1 -> B v2 -> EMPTY leaves
\* the object table [Class A, Class B]; a later call of read_class at a
\* reference to index 0 (the length byte after START, or the byte read_class
\* is at) returns the class A; such a call moves the cursor over the
\* reference byte alone, after the START bytes, and changes neither table.
C6_ClassChain ==
    /\ ChainStates
    /\ [][ /\ ChainStates'
           /\ (read_class_reference
                 \/ (read_class_pointer /\ status' = "running"))
                 => /\ idx' = idx + 1
                    /\ get_current_byte >= REFERENCE_TAG
                          => ret' =
                               IF get_current_byte - REFERENCE_TAG
                                      < Len(object_table)
                               THEN RetSome(get_current_byte - REFERENCE_TAG)
                               ELSE RetNone
                    /\ UNCHANGED << types_table, object_table >>
           /\ (stream = ChainStream /\ read_class_start /\ ChainAt' = 14)
                 => ChainAt = 13
         ]_vars

\* C6 witness: the call of read_class that began at START, reference 0
\* returned the class A to read_object, two bytes on
C6_Witness ==
    /\ stream = ChainStream
    /\ At("read_object", "obj_class")
    /\ ChainAt = 15
    /\ object_table[ret.ix + 1] = ClassA

\* the index a pointer byte stands for (it wraps below REFERENCE_TAG)
PointerIndex(byte) ==
    IF byte >= REFERENCE_TAG THEN byte - REFERENCE_TAG ELSE byte + 110

\* C7: at a byte that is neither START nor END, get_type changes neither
\* table, and when it returns it returns the list the type table holds at
\* the index of the pointer; the cursor moves over the run of equal bytes,
\* one byte a step, and over the pointer byte, and over no type code; the
\* caller decodes the values that follow by the list that was returned.
C7_TypeListReuse ==
    [][ /\ get_type_ref => UNCHANGED << types_table, object_table >>
        /\ (get_type_ref /\ status' = "running")
              => /\ ret' = RetTypes(
                             types_table[PointerIndex(get_current_byte) + 1])
                 /\ idx' = idx + 1
                 /\ stack' = Callers
        /\ get_type_skip
              => /\ idx' = idx + 1
                 /\ get_byte(idx') = get_current_byte
                 /\ UNCHANGED << types_table, object_table, ret >>
        /\ (parse_read_types \/ read_embedded_data_types)
              => /\ Top'.fn = "read_types"
                 /\ Top'.types = ret.types
                 /\ Top'.i = 1
        /\ (stream = TypeRefStream /\ Finished')
              => Outcome' = [status |-> "done",
                             entries |-> << << OutString(<< 65 >>) >>,
                                            << OutString(<< 66 >>) >> >>]
        /\ (stream = DuplicateStream /\ Finished')
              => Outcome' = [status |-> "done",
                             entries |-> << << OutNumber(7) >>,
                                            << OutNumber(8) >> >>]
      ]_vars

\* C7 witness: get_type returned the list registered first for the run of
\* two reference bytes, and the type table still holds that one list
C7_Witness ==
    /\ stream = DuplicateStream
    /\ At("parse", "found_types")
    /\ idx = HEADER_LEN + 6
    /\ ret = RetTypes(<< TypeUnsignedInt >>)
    /\ Len(types_table) = 1

Recognized == {64, 43, 42, 105, 73}

\* UnknownStream with another byte as its first type code
UnknownStreamOf(byte) == [UnknownStream EXCEPT ![HEADER_LEN + 3] = byte]

\* C8: a type code byte outside the recognized set is the type Unknown of
\* that byte, and read_types pushes exactly one value for it, the byte; it
\* raises no error, reads nothing and changes neither table.
C8_UnknownTypeCode ==
    [][ /\ (get_type_start /\ status' = "running")
              => \A j \in 1..Len(ret'.types) :
                     Consumed[j + 2] \notin Recognized
                         => ret'.types[j] = TypeUnknown(Consumed[j + 2])
        /\ read_types_unknown
              => /\ Top'.out = Append(Top.out, OutByte(Top.types[Top.i].b))
                 /\ Top'.i = Top.i + 1
                 /\ Len(stack') = Len(stack)
                 /\ status' = "running"
                 /\ UNCHANGED << idx, types_table, object_table >>
        /\ \A byte \in MutationBytes \ Recognized :
               (stream = UnknownStreamOf(byte) /\ Finished')
                   => Outcome' = [status |-> "done",
                                  entries |->
                                      << << OutByte(byte), OutNumber(9) >> >>]
      ]_vars

\* C8 witness: the parse of a stream whose type list begins with the
\* unknown code 85 returned the byte 85 and the number read after it
C8_Witness ==
    /\ stream = UnknownStream
    /\ status = "done"
    /\ ret.data = << << OutByte(85), OutNumber(9) >> >>

\* the bytes after header, START, 1, Utf8String and a length byte
StringText == SubSeq(stream, HEADER_LEN + 5, Len(stream))

\* the stream is a header, the type list [Utf8String], a length byte L and
\* L bytes of valid text
SingleString ==
    /\ Len(stream) >= HEADER_LEN + 4
    /\ SubSeq(stream, HEADER_LEN + 1, HEADER_LEN + 3) = << START, 1, 43 >>
    /\ stream[HEADER_LEN + 4] = Len(StringText)
    /\ from_utf8_ok(StringText)

\* C9: the parse of a stream that holds one type list [Utf8String], a
\* length byte L and L bytes of valid text returns exactly one entry, the
\* one value Text of those bytes; the Utf8String rule moves the cursor
\* by 1 + L.
C9_SingleString ==
    [][ /\ (SingleString /\ Finished')
              => Outcome' = [status |-> "done",
                             entries |-> << << OutString(StringText) >> >>]
        /\ (read_types_utf8_string /\ status' = "running")
              => idx' = idx + 1 + get_current_byte
      ]_vars

\* C9 witness: the parse of the stream of "Hello" returned [Text("Hello")]
C9_Witness ==
    /\ stream = HelloStream(5)
    /\ status = "done"
    /\ ret.data = << << OutString(Hello) >> >>

\* the position of the first '/' of a mime type, or one past its end
FirstSlash(mime) ==
    CHOOSE p \in 1..(Len(mime) + 1) :
        /\ p <= Len(mime) => mime[p] = "/"
        /\ \A q \in 1..(p - 1) : mime[q] # "/"

MajorType(mime) == SubSeq(mime, 1, FirstSlash(mime) - 1)

MajorKinds ==
    { << << "i", "m", "a", "g", "e" >>, "Image" >>,
      << << "v", "i", "d", "e", "o" >>, "Video" >>,
      << << "a", "u", "d", "i", "o" >>, "Audio" >>,
      << << "t", "e", "x", "t" >>, "Text" >>,
      << << "a", "p", "p", "l", "i", "c", "a", "t", "i", "o", "n" >>,
         "Application" >> }

\* C10: mime_type classifies by the text before the first '/': one of the
\* five major types gives its variant, any other text gives Other, and
\* these carry the whole mime type; no mime type gives Unknown.
C10_MimeType ==
    media # Unset =>
        IF mime_type.some
        THEN /\ media.s = mime_type.s
             /\ \A m \in MajorKinds :
                    MajorType(mime_type.s) = m[1] => media.k = m[2]
             /\ (\A m \in MajorKinds : MajorType(mime_type.s) # m[1])
                    => media.k = "Other"
        ELSE media = MediaType("Unknown", << >>)

\* C10 witness: "image/png" was classified as Image("image/png")
C10_Witness ==
    /\ mime_type = SomeMime(<< "i", "m", "a", "g", "e", "/", "p", "n", "g" >>)
    /\ media = MediaType("Image", mime_type.s)

-----------------------------------------------------------------------------
(* Termination. *)

\* get_type returns to the driver loop of parse
DriverTypeRead ==
    /\ status = "running"
    /\ Len(stack) = 2
    /\ Top.fn = "get_type"
    /\ status' = "running"
    /\ Len(stack') = 1

\* every iteration of the driver loop, of the two skip loops, and every
\* recursive step of read_class moves the cursor forward, and no step in
\* between moves it back
Advances ==
    /\ parse_skip_end => idx' > idx
    /\ DriverTypeRead => idx' > idx
    /\ get_type_skip => idx' > idx
    /\ (read_class_start \/ read_class_skip) => idx' > idx
    /\ (read_class_literal /\ status' = "running") => idx' > idx
    /\ idx' >= idx

\* the last link of a class chain ends: a read_class call that did not
\* recurse returns or fails
ChainEnds ==
    /\ status = "running"
    /\ Len(stack) > 0
    /\ Top.fn = "read_class"
    /\ Top.pc # "chain"
    /\ \/ status' = "panic"
       \/ status' = "running" /\ stack' = Callers

\* the chain ends at the empty-chain marker, at a back-reference, or fails
EndsByMarkerOrReference ==
    \/ read_class_empty
    \/ read_class_reference
    \/ read_class_pointer
    \/ status' = "panic"

\* C11 as stated: every parse ends, every loop iteration and every
\* recursive step of read_class moves the cursor forward, and a class chain
\* ends at the empty-chain marker, at a back-reference, or with a failure.
C11_ChainEndsThreeWays ==
    /\ <>Finished
    /\ [][Advances /\ (ChainEnds => EndsByMarkerOrReference)]_vars

\* C11, amended: every parse ends, every loop iteration and every
\* recursive step of read_class moves the cursor forward, and a class chain
\* ends at the empty-chain marker, at a back-reference, at an embedded
\* object (the 0x95 marker, whose decoded data is registered), or with a
\* failure.
C11_Terminates ==
    /\ <>Finished
    /\ [][Advances
            /\ (ChainEnds => (EndsByMarkerOrReference \/ read_class_object))]_vars

\* C11 witness: the chain A -> embedded object was decoded and parse
\* returned
C11_Witness ==
    /\ stream = ObjectStream
    /\ status = "done"
    /\ Len(object_table) = 2
    /\ object_table[2].k = "Object"

-----------------------------------------------------------------------------
(* What the literal arm of read_class returns. *)

\* C12: a read_class call that registered a class and read the next link
\* of the chain returns the entry it registered itself, whatever the later
\* links registered.  (Stated for a next link that returned an entry.)
C12_ReturnsRegisteredEntry ==
    [][(read_class_chain /\ ret.some) => ret' = RetSome(Top.entry - 1)]_vars

-----------------------------------------------------------------------------
(* The place of an embedded object in the object table. *)

\* the places of the entries registered since the embedded object that is
\* now registered began (at its 0x95 marker)
RegisteredSinceBegin == Top.entry..Len(object_table)

\* C13: an embedded object takes its place in the object table where it
\* begins in the stream: its index is lower than the index of every class
\* or object registered while the bytes after its beginning (its own
\* nested data) were decoded.
C13_ObjectReservesPlace ==
    [][read_class_object
          => \A place \in RegisteredSinceBegin : Len(object_table') < place]_vars

-----------------------------------------------------------------------------
(* The byte a pointer is read from. *)

\* the next step calls read_pointer: a fall-through arm of read_class, of
\* read_object or, after its skip loop, of get_type
PointerRead ==
    \/ /\ At("read_class", "match")
       /\ get_current_byte \notin {START, EMPTY, ENCODING_DETECTED}
    \/ /\ At("read_object", "match")
       /\ get_current_byte \notin {START, EMPTY}
    \/ /\ InRefArm
       /\ InBounds(idx + 1)
       /\ get_current_byte # get_next_byte

\* C14: whenever read_pointer is called, the byte at the cursor is at least
\* REFERENCE_TAG (0x92), so byte - 0x92 does not underflow and the index it
\* gives lies in 0..0x6D.
C14_PointerByteAtLeastTag ==
    PointerRead =>
        /\ get_current_byte >= REFERENCE_TAG
        /\ get_current_byte - REFERENCE_TAG \in 0..(U8 - 1 - REFERENCE_TAG)

=============================================================================
